---- MODULE Spec2Model ----
(***************************************************************************)
(* Training orchestration of crank's cyclic VQVAE / LSGAN trainer.         *)
(*                                                                         *)
(*   src/crank/net/trainer/trainer_cyclegan.py  CycleGANTrainer            *)
(*   src/crank/bin/train.py                     get_model, load_checkpoint *)
(*                                                                         *)
(* Tensors are symbolic: a tensor records where it comes from, the frames  *)
(* of its time axis that are still present, and the set of networks whose  *)
(* parameters autograd reaches from it ("grad").  The networks themselves  *)
(* are black boxes.  The loss accumulator is the string-keyed dictionary   *)
(* of the code; its two totals "G" and "D" are kept as the ordered list of *)
(* the weighted terms added into them.  "trace" is the ordered list of the *)
(* accumulator operations and optimizer steps of the current trainer step. *)
(***************************************************************************)
EXTENDS Integers, Sequences, FiniteSets, TLC

\* Bounds of the model.
MaxCycles == 2
MaxFrames == 2
MaxSteps == 1
MaxCkptSteps == 2
MaxFiles == 2

VARIABLES
    conf,            \* the configuration (self.conf)
    stop_generator,  \* self.stop_generator, the generator-freeze flag
    phase,           \* phase argument of the hooks of the current step
    batch,           \* the batch of the current step
    loss,            \* the loss accumulator threaded through update_G / update_D
    trace,           \* accumulator operations and optimizer steps of the current step
    model,           \* Model Collection: role -> parameters and optimizer state
    grads,           \* role -> totals whose backward pass has reached the role's .grad
    steps,           \* trainer steps completed
    pc,              \* position in the step / setup state machine
    fake_keys,       \* what random.choice returned in update_D, one entry per cycle
    checkpoint,      \* the checkpoint record torch.load returned
    resume,          \* the resume step handed to the trainer
    args,            \* command line: args.flag, args.checkpoint
    expdir,          \* the experiment directory: its path and checkpoint files
    opened           \* the path main() handed to load_checkpoint, if any

vars == <<conf, stop_generator, phase, batch, loss, trace, model, grads, steps,
          pc, fake_keys, checkpoint, resume, args, expdir, opened>>

----------------------------------------------------------------------------
(* Configuration and model construction                                    *)

Roles == {"G", "D", "C", "SPKRADV"}

\* conf["alpha"]: one weight per loss-term family (distinct values, so that a
\* term added with the wrong family's weight is visible).
Alpha == [adv |-> 2, acgan |-> 3, fake |-> 4, real |-> 5]

Confs ==
    [n_cycles : 1..MaxCycles,
     acgan_flag : BOOLEAN,
     use_real_only_acgan : BOOLEAN,
     use_spkradv_training : BOOLEAN,
     use_spkr_classifier : BOOLEAN,
     trainer_type : {"vqvae", "cyclegan"},
     gan_type : {"lsgan", "wgan"},
     use_residual_network : BOOLEAN,
     alpha : {Alpha}]

FreshNet == [origin |-> "init", updates |-> 0]

\* if conf["trainer_type"] in ["lsgan", "cyclegan", "stargan"]
BuildsD(cf) == cf.trainer_type \in {"lsgan", "cyclegan", "stargan"}

\* output_channels is assigned only under gan_type == "lsgan" and then read
\* (output_channels += spkr_size, out_channels=output_channels): any other
\* gan_type raises UnboundLocalError.
OutputChannelsUnbound(cf) == BuildsD(cf) /\ cf.gan_type # "lsgan"

\* Without use_residual_network the discriminator's constructor is given
\* layers = n_discriminator_layers * ["n_discriminator_stacks"], a list.
ListLayers(cf) == BuildsD(cf) /\ ~cf.use_residual_network

\* get_model: "G" always, "SPKRADV" / "C" / "D" as the configuration asks.
\* ctor_ok: whether ParallelWaveGANDiscriminator accepts the list of layers
\* (the constructor is a library's; either outcome is allowed for).
\* Returns what was raised ("none" when nothing) and the collection.
get_model(cf, ctor_ok) ==
    LET roles == {"G"}
                 \cup (IF cf.use_spkradv_training THEN {"SPKRADV"} ELSE {})
                 \cup (IF cf.use_spkr_classifier THEN {"C"} ELSE {})
                 \cup (IF BuildsD(cf) THEN {"D"} ELSE {})
    IN  IF OutputChannelsUnbound(cf)
        THEN [raised |-> "UnboundLocalError", models |-> <<>>]
        ELSE IF ListLayers(cf) /\ ~ctor_ok
        THEN [raised |-> "DiscriminatorError", models |-> <<>>]
        ELSE [raised |-> "none", models |-> [m \in roles |-> FreshNet]]

----------------------------------------------------------------------------
(* Checkpoint loading                                                      *)

\* A persisted record {"model": {role: parameters}, "steps": integer}.
Checkpoints ==
    UNION {[model : [rs -> {[origin |-> "ckpt", updates |-> 0]}],
            steps : 0..MaxCkptSteps] : rs \in SUBSET Roles}

NoCheckpoint == [model |-> <<>>, steps |-> 0]

\* Variant: the loop forgets the last role.
OptionalRoles_NoSpkradv == <<"D", "C">>

\* The optional roles load_checkpoint looks for, in the order of its loop.
OptionalRoles == <<"D", "C", "SPKRADV">>

\* load_state_dict: the network takes the record's parameters.
load_state_dict(net, sd) == [net EXCEPT !.origin = sd.origin]

RECURSIVE LoadOptional(_, _, _)
LoadOptional(mdl, state_dict, i) ==
    IF i > Len(OptionalRoles) THEN mdl
    ELSE LET m == OptionalRoles[i]
             nxt == IF m \in DOMAIN state_dict.model /\ m \in DOMAIN mdl
                    THEN [mdl EXCEPT ![m] = load_state_dict(mdl[m], state_dict.model[m])]
                    ELSE mdl
         IN  LoadOptional(nxt, state_dict, i + 1)

\* state_dict["model"]["G"] is read unconditionally: a record without "G"
\* raises KeyError.
LoadRaises(mdl, state_dict) == "G" \notin DOMAIN state_dict.model

\* load_checkpoint(model, checkpoint) -> (model, steps), when it does not raise.
load_checkpoint(mdl, state_dict) ==
    LET g == [mdl EXCEPT !["G"] = load_state_dict(mdl["G"], state_dict.model["G"])]
    IN  [model |-> LoadOptional(g, state_dict, 1), steps |-> state_dict.steps]

----------------------------------------------------------------------------
(* Tensors, networks and criteria                                          *)

Frames == 1..MaxFrames

Masks == [Frames -> BOOLEAN]

\* batch["in_feats"]: data, no network behind it.
InFeats == [src |-> "in_feats", cycle |-> 0, branch |-> "none", grad |-> {}]

Batches ==
    [in_feats : {InFeats},
     decoder_mask : Masks,
     cycle_decoder_mask : Masks,
     org_h : {"org_h"},
     cv_h : {"cv_h"}]

NoBatch ==
    [in_feats |-> InFeats,
     decoder_mask |-> [t \in Frames |-> TRUE],
     cycle_decoder_mask |-> [t \in Frames |-> TRUE],
     org_h |-> "org_h",
     cv_h |-> "cv_h"]

\* model["G"].cycle_forward: per cycle, the decoded output of the "org" and of
\* the "cv" branch; both depend on the parameters of "G".
Decoded(c, io) == [decoded |-> [src |-> "G", cycle |-> c, branch |-> io, grad |-> {"G"}]]

cycle_forward(cf) ==
    [c \in 0..(cf.n_cycles - 1) |-> [org |-> Decoded(c, "org"), cv |-> Decoded(c, "cv")]]

\* Tensor.detach(): same value, cut from the graph.
detach(x) == [x EXCEPT !.grad = {}]

\* get_D_inputs(batch, feats, label): the discriminator input built from
\* feats and the conditioning of the given label.
get_D_inputs(b, x, label) == [feat |-> x, label |-> label, grad |-> x.grad]

\* return_sample: the discriminator's score of x, one row per frame.
return_sample(x) ==
    [net |-> "D", input |-> x, chan |-> "all", frames |-> Frames,
     grad |-> x.grad \cup {"D"}]

\* torch.split(t, [1, n_spkrs], dim=2): validity channel, speaker-class channels.
split(t) == <<[t EXCEPT !.chan = "validity"], [t EXCEPT !.chan = "spkr_cls"]>>

\* Tensor.masked_select(mask): only the frames where the mask is true remain.
masked_select(t, mask) == [t EXCEPT !.frames = {f \in t.frames : mask[f]}]

\* criterion["mse"](x, ones_like(x) / zeros_like(x)), target "ones" / "zeros",
\* and criterion["ce"](x, h).
mse(x, target) == [kind |-> "mse", x |-> x, target |-> target]

ce(x, h) == [kind |-> "ce", x |-> x, target |-> h]

----------------------------------------------------------------------------
(* The loss accumulator                                                    *)

EmptyTotal == [kind |-> "total", parts |-> <<>>]

\* The accumulator the base trainer hands to the hooks.
InitLoss == [k \in {"G", "D"} |-> EmptyTotal]

Event(op, tgt, w, key) == [op |-> op, tgt |-> tgt, w |-> w, key |-> key]

\* loss[key] = val
Write(acc, key, val) ==
    [loss |-> (key :> val) @@ acc.loss,
     trace |-> Append(acc.trace, Event("write", "", 0, key))]

\* loss[total] += w * loss[key]
AddTo(acc, total, w, key) ==
    [loss |-> [acc.loss EXCEPT ![total].parts =
                   Append(@, [w |-> w, val |-> acc.loss[key]])],
     trace |-> Append(acc.trace, Event("add", total, w, key))]

\* The networks autograd reaches from a total.
Reach(total) == UNION {total.parts[i].val.x.grad : i \in DOMAIN total.parts}

\* step_model(loss, model=m): zero the gradients of m, backpropagate loss[m]
\* (into every network autograd reaches from it), apply m's optimizer step.
step_model(mdl, gr, lss, m) ==
    LET reach == Reach(lss[m])
        zeroed == [gr EXCEPT ![m] = {}]
    IN  [model |-> [mdl EXCEPT ![m].updates = @ + 1],
         grads |-> [r \in DOMAIN gr |->
                       IF r \in reach THEN zeroed[r] \cup {m} ELSE zeroed[r]]]

----------------------------------------------------------------------------
(* Generator step: CycleGANTrainer.update_G                                *)

\* Loss terms of the parent trainers: reconstruction on the first cycle's
\* "org" branch, cycle consistency over all cycles, speaker-adversarial loss.
calculate_vqvae_loss(b, output, acc) ==
    AddTo(Write(acc, "G_vqvae", [kind |-> "rec", x |-> output.decoded, target |-> "in_feats"]),
          "G", 1, "G_vqvae")

calculate_cyclevqvae_loss(b, outputs, acc) ==
    AddTo(Write(acc, "G_cyclevqvae",
                [kind |-> "cyc", x |-> outputs[0].org.decoded, target |-> "in_feats"]),
          "G", 1, "G_cyclevqvae")

calculate_spkradv_loss(b, output, acc) ==
    AddTo(Write(acc, "G_spkradv",
                [kind |-> "spkradv", x |-> output.decoded, target |-> b.org_h]),
          "G", 1, "G_spkradv")

\* for io in ["org", "cv"]
Branches == <<"org", "cv">>

\* Variant: the label omits the branch.
CycLbl_NoBranch(c, io) == ToString(c) \o "cyc"

\* lbl = f"{c}cyc_{io}"
CycLbl(c, io) == ToString(c) \o "cyc_" \o io

\* f"D_adv_{lbl}" and f"D_acgan_adv_{lbl}"
AdvKey(lbl) == "D_adv_" \o lbl

AcganAdvKey(lbl) == "D_acgan_adv_" \o lbl

\* One pass of the loop body of calculate_cycleadv_loss, for cycle c, branch io.
CycleAdvBody(acc, b, outputs, cf, c, io) ==
    LET mask == b.decoder_mask
        lbl == CycLbl(c, io)
        D_inputs == get_D_inputs(b, outputs[c][io].decoded, "cv")
        D_raw == return_sample(D_inputs)
        sp == split(D_raw)
        D_outputs == IF cf.acgan_flag THEN masked_select(sp[1], mask) ELSE D_raw
        a1 == IF cf.acgan_flag
              THEN AddTo(Write(acc, AcganAdvKey(lbl), ce(sp[2], b[io \o "_h"])),
                         "G", cf.alpha.acgan, AcganAdvKey(lbl))
              ELSE acc
        a2 == Write(a1, AdvKey(lbl), mse(D_outputs, "ones"))
    IN  AddTo(a2, "G", cf.alpha.adv, AdvKey(lbl))

\* for c in range(n_cycles): for io in ["org", "cv"]: ...  (k counts the passes)
RECURSIVE CycleAdvLoop(_, _, _, _, _)
CycleAdvLoop(acc, b, outputs, cf, k) ==
    IF k >= cf.n_cycles * Len(Branches) THEN acc
    ELSE CycleAdvLoop(
             CycleAdvBody(acc, b, outputs, cf, k \div Len(Branches),
                          Branches[(k % Len(Branches)) + 1]),
             b, outputs, cf, k + 1)

calculate_cycleadv_loss(b, outputs, acc, cf) == CycleAdvLoop(acc, b, outputs, cf, 0)

\* Variant: the guard ignores the generator-freeze flag.
StepsG_IgnoreFreeze(ph, stop) == ph = "train"

\* if phase == "train" and not self.stop_generator
StepsG(ph, stop) == ph = "train" /\ ~stop

\* The optimizer step of a hook, when its guard holds.
MaybeStep(acc, mdl, gr, m, guard) ==
    IF guard
    THEN LET st == step_model(mdl, gr, acc.loss, m)
         IN  [loss |-> acc.loss, trace |-> Append(acc.trace, Event("step", m, 0, "")),
              model |-> st.model, grads |-> st.grads]
    ELSE [loss |-> acc.loss, trace |-> acc.trace, model |-> mdl, grads |-> gr]

\* Variant: the optimizer step is taken before the cyclic adversarial terms
\* are added.
UpdateG_StepFirst(b, acc, mdl, gr, cf, ph, stop) ==
    LET cycle_outputs == cycle_forward(cf)
        a1 == calculate_vqvae_loss(b, cycle_outputs[0].org, acc)
        a2 == calculate_cyclevqvae_loss(b, cycle_outputs, a1)
        st == MaybeStep(a2, mdl, gr, "G", StepsG(ph, stop))
        a4 == calculate_cycleadv_loss(b, cycle_outputs,
                                      [loss |-> st.loss, trace |-> st.trace], cf)
    IN  [loss |-> a4.loss, trace |-> a4.trace, model |-> st.model, grads |-> st.grads]

\* update_G(batch, loss, phase): the accumulator returned, and the networks after it.
UpdateG(b, acc, mdl, gr, cf, ph, stop) ==
    LET cycle_outputs == cycle_forward(cf)
        a1 == calculate_vqvae_loss(b, cycle_outputs[0].org, acc)
        a2 == calculate_cyclevqvae_loss(b, cycle_outputs, a1)
        a3 == IF cf.use_spkradv_training
              THEN calculate_spkradv_loss(b, cycle_outputs[0].org, a2)
              ELSE a2
        a4 == calculate_cycleadv_loss(b, cycle_outputs, a3, cf)
    IN  MaybeStep(a4, mdl, gr, "G", StepsG(ph, stop))

----------------------------------------------------------------------------
(* Discriminator step: CycleGANTrainer.update_D                            *)

\* lbl = f"{c}cyc"
DLbl(c) == ToString(c) \o "cyc"

\* f"D_ce_{k}_{lbl}", f"D_real_{lbl}", f"D_fake_{lbl}"
CeKey(k, lbl) == "D_ce_" \o k \o "_" \o lbl

RealKey(lbl) == "D_real_" \o lbl

FakeKey(lbl) == "D_fake_" \o lbl

\* The three discriminator inputs built in pass c of the loop.
RealInputs(b, outputs, c) == get_D_inputs(b, b.in_feats, "org")

\* Variant: the "org" fake is not detached.
OrgFakeInputs_NoDetach(b, outputs, c) == get_D_inputs(b, outputs[0].org.decoded, "org")

OrgFakeInputs(b, outputs, c) == get_D_inputs(b, detach(outputs[0].org.decoded), "org")

CvFakeInputs(b, outputs, c) == get_D_inputs(b, detach(outputs[0].cv.decoded), "cv")

\* The keys of the sample dictionary, in insertion order.
SampleKeys == <<"real", "org_fake", "cv_fake">>

\* ["org_fake", "cv_fake"], the population random.choice draws from.
FakeChoices == {"org_fake", "cv_fake"}

\* h = batch["org_h"] if k in ["real", "org_fake"] else batch["cv_h"]
CeTarget(b, k) == IF k \in {"real", "org_fake"} THEN b.org_h ELSE b.cv_h

\* Variant: the policy keeps the real term only.
AddsCe_RealOnly(cf, k) == ~(cf.use_real_only_acgan /\ k # "real")

\* if not (use_real_only_acgan and k == "org_fake")
AddsCe(cf, k) == ~(cf.use_real_only_acgan /\ k = "org_fake")

\* for k in sample.keys(): split sample[k], write the classification term.
\* st = [acc, sample].
RECURSIVE AcganLoop(_, _, _, _, _)
AcganLoop(st, b, cf, lbl, i) ==
    IF i > Len(SampleKeys) THEN st
    ELSE LET k == SampleKeys[i]
             sp == split(st.sample[k])
             a1 == Write(st.acc, CeKey(k, lbl), ce(sp[2], CeTarget(b, k)))
             a2 == IF AddsCe(cf, k) THEN AddTo(a1, "D", cf.alpha.acgan, CeKey(k, lbl))
                   ELSE a1
         IN  AcganLoop([acc |-> a2, sample |-> [st.sample EXCEPT ![k] = sp[1]]],
                       b, cf, lbl, i + 1)

\* Variant: the two masks are swapped.
FakeMask_Swapped(b, fake_key) ==
    IF fake_key = "org_fake" THEN b.decoder_mask ELSE b.cycle_decoder_mask

\* mask = batch["cycle_decoder_mask"] if fake_key == "org_fake" else batch["decoder_mask"]
FakeMask(b, fake_key) ==
    IF fake_key = "org_fake" THEN b.cycle_decoder_mask ELSE b.decoder_mask

\* Variant: the draw is ignored.
ChosenSample_AlwaysCv(sample, fake_key) == sample["cv_fake"]

\* sample[fake_key]
ChosenSample(sample, fake_key) == sample[fake_key]

\* The mask the real sample is selected with.
RealMask(b) == b.decoder_mask

\* One pass of the loop body of calculate_cycle_discriminator_loss, for cycle
\* c, with fake_key what random.choice returns in this pass.
DiscBody(acc, b, outputs, cf, c, fake_key) ==
    LET lbl == DLbl(c)
        sample0 == [real |-> return_sample(RealInputs(b, outputs, c)),
                    org_fake |-> return_sample(OrgFakeInputs(b, outputs, c)),
                    cv_fake |-> return_sample(CvFakeInputs(b, outputs, c))]
        st == IF cf.acgan_flag
              THEN AcganLoop([acc |-> acc, sample |-> sample0], b, cf, lbl, 1)
              ELSE [acc |-> acc, sample |-> sample0]
        real_sample == masked_select(st.sample.real, RealMask(b))
        a1 == Write(st.acc, RealKey(lbl), mse(real_sample, "ones"))
        fake_sample == masked_select(ChosenSample(st.sample, fake_key), FakeMask(b, fake_key))
        a2 == Write(a1, FakeKey(lbl), mse(fake_sample, "zeros"))
    IN  AddTo(AddTo(a2, "D", cf.alpha.fake, FakeKey(lbl)), "D", cf.alpha.real, RealKey(lbl))

\* for c in range(n_cycles): ...   choices[c + 1] is the draw of pass c.
RECURSIVE DiscLoop(_, _, _, _, _, _)
DiscLoop(acc, b, outputs, cf, choices, c) ==
    IF c >= cf.n_cycles THEN acc
    ELSE DiscLoop(DiscBody(acc, b, outputs, cf, c, choices[c + 1]),
                  b, outputs, cf, choices, c + 1)

calculate_cycle_discriminator_loss(b, outputs, acc, cf, choices) ==
    DiscLoop(acc, b, outputs, cf, choices, 0)

\* if phase == "train"
StepsD(ph, stop) == ph = "train"

\* update_D(batch, loss, phase): the accumulator returned, and the networks after it.
UpdateD(b, acc, mdl, gr, cf, ph, stop, choices) ==
    LET outputs == cycle_forward(cf)
        a1 == calculate_cycle_discriminator_loss(b, outputs, acc, cf, choices)
    IN  MaybeStep(a1, mdl, gr, "D", StepsD(ph, stop))

----------------------------------------------------------------------------
(* The trainer's step: fetch batch -> update_G -> update_D -> log          *)

Phases == {"train", "dev"}

\* The configurations of a CycleGANTrainer run: those get_model builds the
\* collection for whatever the library's constructor does with a list of
\* layers (and, to bound the model, no classifier).
TrainConfs ==
    {cf \in Confs : /\ cf.trainer_type = "cyclegan"
                    /\ get_model(cf, FALSE).raised = "none"
                    /\ ~cf.use_spkr_classifier}

\* expdir = Path(args.expdir) / Path(args.conf).stem and its files:
\*   runs   the numbers written in the directory part of the path ("conf2": {2}),
\*   files  the step numbers n of the files checkpoint_<n>steps.pkl,
\*   other  whether the glob also finds a file with no digit in its stem
\*          (checkpoint_steps.pkl).
Expdirs ==
    [runs : {r \in SUBSET (1..MaxFiles) : Cardinality(r) <= 1},
     files : SUBSET (1..MaxFiles),
     other : BOOLEAN]

\* An experiment directory with no checkpoint file and no digit in its path.
EmptyExpdir == [runs |-> {}, files |-> {}, other |-> FALSE]

\* The command line of a training run from scratch.
TrainArgs == [flag |-> "train", checkpoint |-> "None"]

Init ==
    /\ conf \in TrainConfs
    /\ stop_generator = FALSE
    /\ phase = "train"
    /\ batch = NoBatch
    /\ loss = InitLoss
    /\ trace = <<>>
    /\ model = get_model(conf, FALSE).models
    /\ grads = [m \in DOMAIN model |-> {}]
    /\ steps = 0
    /\ pc = "fetch"
    /\ fake_keys = <<>>
    /\ checkpoint = NoCheckpoint
    /\ resume = 0
    /\ args = TrainArgs
    /\ expdir = EmptyExpdir
    /\ opened = "none"

\* The base trainer obtains the next batch and a fresh accumulator.
Fetch ==
    /\ pc = "fetch"
    /\ steps < MaxSteps
    /\ batch' \in Batches
    /\ phase' \in Phases
    /\ stop_generator' \in BOOLEAN
    /\ loss' = InitLoss
    /\ trace' = <<>>
    /\ fake_keys' = <<>>
    /\ pc' = "update_G"
    /\ UNCHANGED <<conf, model, grads, steps, checkpoint, resume,
                   args, expdir, opened>>

update_G ==
    /\ pc = "update_G"
    /\ LET r == UpdateG(batch, [loss |-> loss, trace |-> trace], model, grads,
                        conf, phase, stop_generator)
       IN  /\ loss' = r.loss
           /\ trace' = r.trace
           /\ model' = r.model
           /\ grads' = r.grads
    /\ pc' = "update_D"
    /\ UNCHANGED <<conf, stop_generator, phase, batch, steps, fake_keys, checkpoint, resume,
                   args, expdir, opened>>

update_D ==
    /\ pc = "update_D"
    /\ \E choices \in [1..conf.n_cycles -> FakeChoices] :
          LET r == UpdateD(batch, [loss |-> loss, trace |-> trace], model, grads,
                           conf, phase, stop_generator, choices)
          IN  /\ loss' = r.loss
              /\ trace' = r.trace
              /\ model' = r.model
              /\ grads' = r.grads
              /\ fake_keys' = choices
    /\ pc' = "log"
    /\ UNCHANGED <<conf, stop_generator, phase, batch, steps, checkpoint, resume,
                   args, expdir, opened>>

\* The base trainer logs the accumulator and counts the step; the batch, the
\* phase and the accumulator of the step are dropped.
LogStep ==
    /\ pc = "log"
    /\ steps' = steps + 1
    /\ batch' = NoBatch
    /\ loss' = InitLoss
    /\ trace' = <<>>
    /\ fake_keys' = <<>>
    /\ phase' = "train"
    /\ pc' = "fetch"
    /\ UNCHANGED <<conf, stop_generator, model, grads, checkpoint, resume,
                   args, expdir, opened>>

Next == Fetch \/ update_G \/ update_D \/ LogStep

Spec == Init /\ [][Next]_vars

----------------------------------------------------------------------------
(* Setup: main() builds the collection, then loads a checkpoint or not    *)

Flags == {"train", "eval", "reconstruction"}

\* args.checkpoint: the string "None", the option left out (the None object,
\* written "<None>"), or the path of a checkpoint file.
CheckpointArgs == {"None", "<None>", "given.pkl"}

\* The configurations setup depends on.
SetupConfs ==
    {cf \in Confs : cf.n_cycles = 1 /\ ~cf.use_real_only_acgan}

InitSetup ==
    /\ conf \in SetupConfs
    /\ stop_generator = FALSE
    /\ phase = "train"
    /\ batch = NoBatch
    /\ loss = InitLoss
    /\ trace = <<>>
    /\ model = <<>>
    /\ grads = <<>>
    /\ steps = 0
    /\ pc = "get_model"
    /\ fake_keys = <<>>
    /\ checkpoint = NoCheckpoint
    /\ resume = 0
    /\ args \in [flag : Flags, checkpoint : CheckpointArgs]
    /\ expdir \in Expdirs
    /\ opened = "none"

\* model = get_model(conf, ...); an exception ends the run.
GetModel ==
    /\ pc = "get_model"
    /\ \E ctor_ok \in BOOLEAN :
          LET r == get_model(conf, ctor_ok)
          IN  IF r.raised = "none"
              THEN model' = r.models /\ pc' = "load_model"
              ELSE model' = model /\ pc' = "raised_" \o r.raised
    /\ UNCHANGED <<conf, stop_generator, phase, batch, loss, trace, grads, steps,
                   fake_keys, checkpoint, resume, args, expdir, opened>>

\* load_checkpoint(model, path) with ck the record torch.load reads from the
\* file: a KeyError ends the run.
CallLoadCheckpoint(path, ck) ==
    /\ opened' = path
    /\ checkpoint' = ck
    /\ IF LoadRaises(model, ck)
       THEN /\ pc' = "raised_KeyError"
            /\ UNCHANGED <<model, resume>>
       ELSE LET r == load_checkpoint(model, ck)
            IN  /\ model' = r.model
                /\ resume' = r.steps
                /\ pc' = "loaded"

\* if args.checkpoint != "None": model, resume = load_checkpoint(model, args.checkpoint).
\* With the option left out the path is the None object, which torch.load
\* cannot open.
LoadGiven ==
    /\ pc = "load_model"
    /\ args.checkpoint # "None"
    /\ IF args.checkpoint = "<None>"
       THEN /\ pc' = "raised_TorchLoad"
            /\ opened' = args.checkpoint
            /\ UNCHANGED <<model, resume, checkpoint>>
       ELSE \E ck \in Checkpoints : CallLoadCheckpoint(args.checkpoint, ck)
    /\ UNCHANGED <<conf, stop_generator, phase, batch, loss, trace, grads, steps,
                   fake_keys, args, expdir>>

\* The decimal digits of n, as str(n) writes them.
RECURSIVE DigitsOf(_)
DigitsOf(n) == IF n < 10 THEN <<n>> ELSE Append(DigitsOf(n \div 10), n % 10)

\* str(m) in str(n), for numbers.
HasDigits(n, m) ==
    LET dn == DigitsOf(n)
        dm == DigitsOf(m)
    IN  \E i \in 1..Len(dn) :
            i + Len(dm) - 1 <= Len(dn) /\ SubSeq(dn, i, i + Len(dm) - 1) = dm

\* steps = [re.findall("[0-9]+", str(p.stem))[0] for p in pkls]: a stem with no
\* digit raises IndexError.
StemWithoutDigits(ed) == ed.other

\* max_step = max([int(s) for s in steps])
max_step(files) == CHOOSE n \in files : \A m \in files : m <= n

\* str(max_step) in str(p): the digits of max_step occur in the file's name or
\* in the directory part of its path ("checkpoint_" and "steps.pkl" hold none).
PathHolds(ed, n, m) == HasDigits(n, m) \/ \E r \in ed.runs : HasDigits(r, m)

\* [p for p in pkls if str(max_step) in str(p)]
Matching(ed) == {n \in ed.files : PathHolds(ed, n, max_step(ed.files))}

CheckpointPath(n) == "checkpoint_" \o ToString(n) \o "steps.pkl"

\* else, for flag in ["reconstruction", "eval"]: load the first file, in glob
\* order (any order: the file system's), whose path holds str(max_step); a
\* stem without digits raises IndexError, max() of no file raises ValueError.
LoadNewest ==
    /\ pc = "load_model"
    /\ args.checkpoint = "None"
    /\ args.flag \in {"reconstruction", "eval"}
    /\ IF StemWithoutDigits(expdir)
       THEN /\ pc' = "raised_IndexError"
            /\ UNCHANGED <<model, resume, checkpoint, opened>>
       ELSE IF expdir.files = {}
       THEN /\ pc' = "raised_ValueError"
            /\ UNCHANGED <<model, resume, checkpoint, opened>>
       ELSE \E n \in Matching(expdir) : \E ck \in Checkpoints :
                CallLoadCheckpoint(CheckpointPath(n), ck)
    /\ UNCHANGED <<conf, stop_generator, phase, batch, loss, trace, grads, steps,
                   fake_keys, args, expdir>>

\* else (flag "train", checkpoint "None"): nothing is loaded, resume = 0.
NoLoad ==
    /\ pc = "load_model"
    /\ args.checkpoint = "None"
    /\ args.flag \notin {"reconstruction", "eval"}
    /\ pc' = "fresh"
    /\ resume' = 0
    /\ UNCHANGED <<conf, stop_generator, phase, batch, loss, trace, model, grads,
                   steps, fake_keys, checkpoint, args, expdir, opened>>

NextSetup == GetModel \/ LoadGiven \/ LoadNewest \/ NoLoad

SpecSetup == InitSetup /\ [][NextSetup]_vars

----------------------------------------------------------------------------
(* Properties                                                              *)

\* update_G has returned in the current step / update_D has returned.
AfterG == pc \in {"update_D", "log"}

AfterD == pc = "log"

Cycles == 0..(conf.n_cycles - 1)

\* The frames a mask selects.
Sel(mask) == {f \in Frames : mask[f]}

\* The branch name a drawn sample key stands for.
BranchOf(fake_key) == IF fake_key = "org_fake" THEN "org" ELSE "cv"

\* The terms of a total added with weight w.
PartsWith(total, w) == {i \in DOMAIN loss[total].parts : loss[total].parts[i].w = w}

\* loss[key] was written, then added once into total with weight w, before
\* any optimizer step for that total, and the total holds w * loss[key].
AddedOnce(total, key, w) ==
    /\ key \in DOMAIN loss
    /\ \E p \in DOMAIN loss[total].parts : loss[total].parts[p] = [w |-> w, val |-> loss[key]]
    /\ \E i \in DOMAIN trace :
          /\ trace[i] = Event("add", total, w, key)
          /\ \A j \in DOMAIN trace : (trace[j].op = "add" /\ trace[j].key = key) => j = i
          /\ \E j \in 1..(i - 1) : trace[j] = Event("write", "", 0, key)
          /\ \A j \in 1..(i - 1) : ~(trace[j].op = "step" /\ trace[j].tgt = total)

NeverAdded(key) == \A j \in DOMAIN trace : ~(trace[j].op = "add" /\ trace[j].key = key)

\* C1: in every update_D call, every generator output that enters a term of
\* loss["D"] is detached, no term of loss["D"] reaches a parameter of "G", and
\* the call changes neither parameters, optimizer state nor gradients of any
\* network but "D".
C1_DiscriminatorStepIsolated ==
    [][pc = "update_D" =>
          /\ \A i \in DOMAIN loss'["D"].parts :
                LET t == loss'["D"].parts[i].val
                IN  /\ "G" \notin t.x.grad
                    /\ t.x.input.feat.src = "G" => t.x.input.feat.grad = {}
          /\ \A r \in DOMAIN model \ {"D"} :
                model'[r] = model[r] /\ grads'[r] = grads[r]]_vars

\* C1 witness: a training step with two cycles whose discriminator step was
\* taken on a total holding fake terms.
C1_Witness ==
    /\ AfterD /\ phase = "train" /\ conf.n_cycles >= 2 /\ conf.acgan_flag
    /\ model["D"].updates > 0
    /\ \E i \in DOMAIN loss["D"].parts : loss["D"].parts[i].val.x.input.feat.src = "G"

\* C2: update_G takes the optimizer step for "G" iff phase = "train" and
\* stop_generator is false; update_D takes the step for "D" iff phase =
\* "train", whatever stop_generator is; with no step taken a hook changes no
\* parameter, optimizer state or gradient; both hooks return the populated
\* accumulator.
C2_StepGating ==
    [][/\ pc = "update_G" =>
             /\ IF phase = "train" /\ ~stop_generator
                THEN model' = [model EXCEPT !["G"].updates = @ + 1]
                ELSE model' = model /\ grads' = grads
             /\ Len(loss'["G"].parts) > Len(loss["G"].parts)
       /\ pc = "update_D" =>
             /\ IF phase = "train"
                THEN model' = [model EXCEPT !["D"].updates = @ + 1]
                ELSE model' = model /\ grads' = grads
             /\ Len(loss'["D"].parts) > Len(loss["D"].parts)]_vars

\* C2 witness: a training step under generator freeze, after which "D" has
\* been stepped and "G" has not.
C2_Witness ==
    /\ AfterD /\ phase = "train" /\ stop_generator
    /\ model["D"].updates = 1 /\ model["G"].updates = 0

\* C3 as stated: with n_cycles = 2, acgan_flag and use_spkradv_training false,
\* update_G populates "G", "0cyc_org_D_adv", "0cyc_cv_D_adv", "1cyc_org_D_adv"
\* and "1cyc_cv_D_adv".
C3_KeysAsStated ==
    (AfterG /\ conf.n_cycles = 2 /\ ~conf.acgan_flag /\ ~conf.use_spkradv_training)
        => {"G", "0cyc_org_D_adv", "0cyc_cv_D_adv", "1cyc_org_D_adv", "1cyc_cv_D_adv"}
               \subseteq DOMAIN loss

\* The adversarial keys of n cycles, as the amended C3 names them.
AdvKeysOf(n) == {"D_adv_" \o ToString(c) \o "cyc_" \o io : c \in 0..(n - 1), io \in {"org", "cv"}}

AcganAdvKeysOf(n) ==
    {"D_acgan_adv_" \o ToString(c) \o "cyc_" \o io : c \in 0..(n - 1), io \in {"org", "cv"}}

\* C3 amended: update_G populates "G" and one adversarial term per cycle per
\* branch under the keys D_adv_<c>cyc_<io> ("D_adv_0cyc_org", "D_adv_0cyc_cv",
\* "D_adv_1cyc_org", "D_adv_1cyc_cv" for two cycles): 2*N keys for N cycles,
\* each written once, and with acgan_flag false no D_acgan_adv_ key.
C3_AdvKeys ==
    AfterG =>
        /\ "G" \in DOMAIN loss
        /\ Cardinality(AdvKeysOf(conf.n_cycles)) = 2 * conf.n_cycles
        /\ AdvKeysOf(conf.n_cycles) \subseteq DOMAIN loss
        /\ AdvKeysOf(MaxCycles + 1) \cap DOMAIN loss = AdvKeysOf(conf.n_cycles)
        /\ \A k \in AdvKeysOf(conf.n_cycles) :
              Cardinality({i \in DOMAIN trace : trace[i] = Event("write", "", 0, k)}) = 1
        /\ conf.n_cycles = 2 =>
              AdvKeysOf(2) = {"D_adv_0cyc_org", "D_adv_0cyc_cv",
                              "D_adv_1cyc_org", "D_adv_1cyc_cv"}
        /\ ~conf.acgan_flag => AcganAdvKeysOf(MaxCycles + 1) \cap DOMAIN loss = {}
        /\ ~conf.acgan_flag =>
              Cardinality({i \in DOMAIN trace :
                              trace[i].op = "write" /\ trace[i].key \in AdvKeysOf(conf.n_cycles)})
                  = 2 * conf.n_cycles

\* C3 witness: the end-to-end scenario, after update_G.
C3_Witness ==
    /\ pc = "update_D" /\ conf.n_cycles = 2
    /\ ~conf.acgan_flag /\ ~conf.use_spkradv_training
    /\ "D_adv_1cyc_cv" \in DOMAIN loss

\* C4: every term of update_G (D_adv, D_acgan_adv) and of update_D (D_fake,
\* D_real, the D_ce terms the policy keeps) is added into its total with its
\* alpha weight, once, before the optimizer step for that total; nothing is
\* added into a total after its step; each named term is written at most once
\* in a step.
C4_AccumulatorInvariant ==
    /\ AfterG =>
          \A c \in Cycles : \A io \in {"org", "cv"} :
              /\ AddedOnce("G", AdvKey(CycLbl(c, io)), conf.alpha.adv)
              /\ conf.acgan_flag =>
                    AddedOnce("G", AcganAdvKey(CycLbl(c, io)), conf.alpha.acgan)
    /\ AfterD =>
          \A c \in Cycles :
              /\ AddedOnce("D", FakeKey(DLbl(c)), conf.alpha.fake)
              /\ AddedOnce("D", RealKey(DLbl(c)), conf.alpha.real)
              /\ conf.acgan_flag =>
                    \A k \in {"real", "org_fake", "cv_fake"} :
                        IF conf.use_real_only_acgan /\ k = "org_fake"
                        THEN NeverAdded(CeKey(k, DLbl(c)))
                        ELSE AddedOnce("D", CeKey(k, DLbl(c)), conf.alpha.acgan)
    /\ \A i, j \in DOMAIN trace :
          (trace[i].op = "write" /\ trace[j].op = "write" /\ trace[i].key = trace[j].key)
              => i = j
    /\ \A i, j \in DOMAIN trace :
          (i < j /\ trace[i].op = "step" /\ trace[j].op = "add")
              => trace[j].tgt # trace[i].tgt

\* C4 witness: a training step with two cycles and the auxiliary classifier,
\* in which both optimizer steps were taken.
C4_Witness ==
    /\ AfterD /\ phase = "train" /\ ~stop_generator
    /\ conf.n_cycles = 2 /\ conf.acgan_flag
    /\ Cardinality({i \in DOMAIN trace : trace[i].op = "step"}) = 2

\* C5 as stated: within one update_D call all fake terms come from the same
\* branch.
C5_OneBranchPerStep ==
    AfterD =>
        \A c1, c2 \in Cycles :
            loss[FakeKey(DLbl(c1))].x.input.label = loss[FakeKey(DLbl(c2))].x.input.label

\* C5 amended: the branch is drawn once per cycle: the fake term of cycle c
\* comes from the one branch drawn for cycle c, exactly one fake term per
\* cycle is added to loss["D"], and the draws of different cycles are
\* independent.
C5_OneBranchPerCycle ==
    AfterD =>
        /\ Len(fake_keys) = conf.n_cycles
        /\ Cardinality(PartsWith("D", conf.alpha.fake)) = conf.n_cycles
        /\ \A c \in Cycles :
              LET t == loss[FakeKey(DLbl(c))]
              IN  /\ t.x.input.label = BranchOf(fake_keys[c + 1])
                  /\ t.x.input.feat.branch = BranchOf(fake_keys[c + 1])
                  /\ \E i \in PartsWith("D", conf.alpha.fake) : loss["D"].parts[i].val = t

\* C5 witness: one update_D call whose two cycles drew different branches.
C5_Witness ==
    /\ AfterD /\ conf.n_cycles >= 2
    /\ fake_keys[1] = "org_fake" /\ fake_keys[2] = "cv_fake"
    /\ loss["D_fake_0cyc"].x.input.label # loss["D_fake_1cyc"].x.input.label

\* C6: in every cycle the fake sample keeps exactly the frames of
\* cycle_decoder_mask when the drawn branch is "org_fake" and exactly those of
\* decoder_mask when it is "cv_fake"; the real sample keeps the frames of
\* decoder_mask; and no hook changes the batch (the masks).
C6_MaskFollowsBranch ==
    /\ [](AfterD =>
             \A c \in Cycles :
                 /\ fake_keys[c + 1] = "org_fake" =>
                       loss[FakeKey(DLbl(c))].x.frames = Sel(batch.cycle_decoder_mask)
                 /\ fake_keys[c + 1] = "cv_fake" =>
                       loss[FakeKey(DLbl(c))].x.frames = Sel(batch.decoder_mask)
                 /\ loss[RealKey(DLbl(c))].x.frames = Sel(batch.decoder_mask))
    /\ [][(pc \in {"update_G", "update_D"}) => (batch' = batch)]_vars

\* C6 witness: the two masks select different frames and both branches were
\* drawn in one call.
C6_Witness ==
    /\ AfterD /\ conf.n_cycles >= 2
    /\ Sel(batch.decoder_mask) # Sel(batch.cycle_decoder_mask)
    /\ Sel(batch.decoder_mask) # Frames
    /\ fake_keys[1] # fake_keys[2]

\* The classification keys of n cycles, as C7 names them.
CeKeysOf(n) ==
    {"D_ce_" \o k \o "_" \o ToString(c) \o "cyc" :
        k \in {"real", "org_fake", "cv_fake"}, c \in 0..(n - 1)}

\* C7: with acgan_flag, update_D writes D_ce_<k>_<c>cyc for every k in {real,
\* org_fake, cv_fake} and every cycle; under use_real_only_acgan the org_fake
\* term is the only one not added to loss["D"], otherwise all three are added
\* with alpha["acgan"]; without acgan_flag no D_ce_ key is written and
\* loss["D"] holds no classification term.
C7_RealOnlyAcgan ==
    AfterD =>
        IF conf.acgan_flag
        THEN /\ CeKeysOf(conf.n_cycles) \subseteq DOMAIN loss
             /\ {"D_ce_real_0cyc", "D_ce_org_fake_0cyc", "D_ce_cv_fake_0cyc"} \subseteq DOMAIN loss
             /\ \A c \in Cycles :
                   LET key(k) == "D_ce_" \o k \o "_" \o ToString(c) \o "cyc"
                   IN  /\ AddedOnce("D", key("real"), conf.alpha.acgan)
                       /\ AddedOnce("D", key("cv_fake"), conf.alpha.acgan)
                       /\ IF conf.use_real_only_acgan
                          THEN NeverAdded(key("org_fake"))
                          ELSE AddedOnce("D", key("org_fake"), conf.alpha.acgan)
             /\ Cardinality({i \in DOMAIN loss["D"].parts : loss["D"].parts[i].val.kind = "ce"})
                    = conf.n_cycles * (IF conf.use_real_only_acgan THEN 2 ELSE 3)
        ELSE /\ CeKeysOf(MaxCycles + 1) \cap DOMAIN loss = {}
             /\ \A i \in DOMAIN loss["D"].parts : loss["D"].parts[i].val.kind # "ce"

\* C7 witness: auxiliary classification under the real-only policy, two
\* cycles: the org_fake terms are in the accumulator and not in the total.
C7_Witness ==
    /\ AfterD /\ conf.acgan_flag /\ conf.use_real_only_acgan /\ conf.n_cycles = 2
    /\ "D_ce_org_fake_1cyc" \in DOMAIN loss
    /\ Cardinality({i \in DOMAIN loss["D"].parts : loss["D"].parts[i].val.kind = "ce"}) = 4

\* A live network holds the record's parameters iff the record has its role.
LoadedExactlyBoth ==
    \A r \in DOMAIN model : (model[r].origin = "ckpt") <=> (r \in DOMAIN checkpoint.model)

\* C8 as stated: for every combination of live roles and record roles,
\* load_checkpoint loads the roles present in both, skips the others without
\* failing and returns the record's steps.
C8_LenientForAllRoles ==
    pc \in {"loaded", "raised_KeyError"} =>
        /\ pc = "loaded"
        /\ LoadedExactlyBoth
        /\ resume = checkpoint.steps

\* C8 amended: "G" is required: a record without "G" makes load_checkpoint
\* raise, with nothing loaded.  With "G" in the record, "G" is loaded, each of
\* "D", "C", "SPKRADV" is loaded iff it is in both the collection and the
\* record, the skipped networks keep their parameters, the set of live roles
\* is unchanged, and the record's steps are returned.
C8_LenientForOptionalRoles ==
    /\ pc = "loaded" =>
          /\ "G" \in DOMAIN checkpoint.model
          /\ LoadedExactlyBoth
          /\ \A r \in DOMAIN model : r \notin DOMAIN checkpoint.model => model[r] = FreshNet
          /\ DOMAIN model = DOMAIN get_model(conf, TRUE).models
          /\ resume = checkpoint.steps
    /\ pc = "raised_KeyError" =>
          /\ "G" \notin DOMAIN checkpoint.model
          /\ \A r \in DOMAIN model : model[r] = FreshNet
          /\ resume = 0

\* C8 witness: a load in which "SPKRADV" is in both, "D" is live but not in
\* the record, and "C" is in the record but not live.
C8_Witness ==
    /\ pc = "loaded" /\ resume = MaxCkptSteps
    /\ "SPKRADV" \in DOMAIN model /\ model["SPKRADV"].origin = "ckpt"
    /\ "D" \in DOMAIN model /\ "D" \notin DOMAIN checkpoint.model
    /\ "C" \in DOMAIN checkpoint.model /\ "C" \notin DOMAIN model

\* C9: the samples scored in cycle c of update_D are the real input and the
\* decoded outputs of cycle c's "org" and "cv" branches, so the D_fake (and
\* D_ce) terms of cycle c are computed from cycle c's outputs.
C9_SamplesOfOwnCycle ==
    AfterD =>
        \A c \in Cycles :
            /\ loss[FakeKey(DLbl(c))].x.input.feat.src = "G"
            /\ loss[FakeKey(DLbl(c))].x.input.feat.cycle = c
            /\ loss[RealKey(DLbl(c))].x.input.feat.src = "in_feats"
            /\ conf.acgan_flag =>
                  \A k \in {"org_fake", "cv_fake"} :
                      loss[CeKey(k, DLbl(c))].x.input.feat.cycle = c

\* C10: for every cycle and both branches, update_G scores the branch's
\* decoded output with the "cv" label, and the D_adv term is computed over
\* exactly the frames decoder_mask selects, with and without acgan_flag.
C10_AdvLossMasked ==
    AfterG =>
        \A c \in Cycles : \A io \in {"org", "cv"} :
            LET t == loss[AdvKey(CycLbl(c, io))]
            IN  /\ t.x.input.label = "cv"
                /\ t.x.input.feat = [src |-> "G", cycle |-> c, branch |-> io, grad |-> {"G"}]
                /\ t.x.frames = Sel(batch.decoder_mask)

====
